---- MODULE Spec2Model ----
(***************************************************************************)
(* Model of the retrieval core of procurement-ai                           *)
(* (src/src/procurement_ai/rag): EmbeddingService, VectorStore,            *)
(* DocumentRetriever and KnowledgeBase.                                    *)
(*                                                                         *)
(* Texts, ids and metadata values are strings; dicts are functions whose   *)
(* domain is a set of strings; Optional[Dict] is a sequence of length 0    *)
(* (None) or 1.  The embedding provider and the ChromaDB index are the     *)
(* environment: the provider answers a request with a vector or fails, and *)
(* the index ranks stored documents by a distance that is chosen when the  *)
(* query is made.  Distances and similarities are fixed-point numbers.     *)
(*                                                                         *)
(* The model also covers LLMService.generate_structured, DocumentGenerator *)
(* and ProcurementOrchestrator.process_tender (the LLM is the environment: *)
(* every attempt validates or fails), and the insertion calls run as       *)
(* coroutines that interleave at the await of the embedding request.       *)
(***************************************************************************)
EXTENDS Integers, Sequences, FiniteSets, TLC

VARIABLES
    collections,  \* collection name -> the documents ChromaDB holds, in insertion order
    file,         \* the snapshot file written by export_to_json (a JSON array)
    adds,         \* collection name -> add_document calls that returned an id since the collection was created
    handle,       \* collection name -> the collection object VectorStore.collection refers to
    last,         \* the last call: its arguments and what the caller got back
    tasks         \* task -> the call it runs as a coroutine, suspended at an await or finished

vars == <<collections, file, adds, handle, last, tasks>>

-----------------------------------------------------------------------------
(* Bounds of the model *)

\* add_document calls that may succeed on one collection before it is reset
MaxAdds == 3

\* fixed-point resolution: a distance d is the integer d * Scale
Scale == 10

-----------------------------------------------------------------------------
(* Values *)

\* Python None where a string is expected
Nil == "<None>"

Max(a, b) == IF a >= b THEN a ELSE b
Min(a, b) == IF a <= b THEN a ELSE b

\* dict.get(key, default)
Get(d, key, default) == IF key \in DOMAIN d THEN d[key] ELSE default

\* dict.update(other), as a new value
Update(d, other) ==
    [key \in DOMAIN d \cup DOMAIN other |->
        IF key \in DOMAIN other THEN other[key] ELSE d[key]]

\* the dict {"category": category, "title": title}
CategoryTitle(category, title) ==
    [key \in {"category", "title"} |-> IF key = "category" THEN category ELSE title]

\* the dict {key: value}
Single(key, value) == [k \in {key} |-> value]

\* Optional[Dict] `or {}`
OrEmpty(opt) == IF Len(opt) = 0 THEN <<>> ELSE opt[1]

\* str.strip(): whitespace removed at both ends
RECURSIVE LStrip(_)
LStrip(s) ==
    IF Len(s) > 0 /\ SubSeq(s, 1, 1) = " " THEN LStrip(SubSeq(s, 2, Len(s))) ELSE s

RECURSIVE RStrip(_)
RStrip(s) ==
    IF Len(s) > 0 /\ SubSeq(s, Len(s), Len(s)) = " "
    THEN RStrip(SubSeq(s, 1, Len(s) - 1)) ELSE s

Strip(s) == RStrip(LStrip(s))

\* Python truthiness of an Optional[str]
Truthy(s) == s # Nil /\ s # ""

-----------------------------------------------------------------------------
(* EmbeddingService *)

\* what the provider may answer to one request: a vector, or a failure
ProviderResponses == {"vector", "unavailable"}

\* the test without the strip(): `not text`
IsBlankStripOmitted(text) == ~Truthy(text)

\* `not text or not text.strip()`
IsBlank(text) == ~Truthy(text) \/ ~Truthy(Strip(text))

\* create_embedding, were a failed request sent a second time
CreateEmbeddingRetry(text, response) ==
    IF IsBlank(text)
    THEN [err |-> "ValueError", requests |-> 0, vector |-> Nil]
    ELSE IF response = "unavailable"
         THEN [err |-> "HTTPError", requests |-> 2, vector |-> Nil]
         ELSE [err |-> "none", requests |-> 1, vector |-> response]

\* create_embedding(text) when the provider would answer `response`:
\* the error raised, the requests sent and the vector returned
CreateEmbedding(text, response) ==
    IF IsBlank(text)
    THEN [err |-> "ValueError", requests |-> 0, vector |-> Nil]
    ELSE IF response = "unavailable"
         THEN [err |-> "HTTPError", requests |-> 1, vector |-> Nil]
         ELSE [err |-> "none", requests |-> 1, vector |-> response]

\* the error of the first create_embedding call that fails when the texts are
\* embedded one after the other, "none" when every call returns a vector
RECURSIVE GatewayError(_, _)
GatewayError(texts, responses) ==
    IF Len(texts) = 0 THEN "none"
    ELSE LET err == CreateEmbedding(Head(texts), Head(responses)).err
         IN  IF err # "none" THEN err ELSE GatewayError(Tail(texts), Tail(responses))

-----------------------------------------------------------------------------
(* VectorStore: insertion *)

Ids(coll) == {coll[i].id : i \in DOMAIN coll}

\* collection.add of one record: ChromaDB ignores a record whose id it already holds
CollectionAdd(coll, content, metadata, id) ==
    IF id \in Ids(coll)
    THEN coll
    ELSE Append(coll, [id |-> id, content |-> content, metadata |-> metadata])

\* Document(content, metadata, id)
Document(content, metadata, id) == [content |-> content, metadata |-> metadata, id |-> id]

\* the id, were it generated from count() whether the document has one or not
DocIdGenerated(coll, document) == "doc_" \o ToString(Len(coll) + 1)

\* `document.id or f"doc_{self.collection.count() + 1}"`
DocId(coll, document) ==
    IF Truthy(document.id) THEN document.id ELSE "doc_" \o ToString(Len(coll) + 1)

\* add_document(document): the collection afterwards, the id returned, the error raised
AddDocumentTo(coll, document, response) ==
    LET doc_id == DocId(coll, document)
        embedding == CreateEmbedding(document.content, response)
    IN  IF embedding.err # "none"
        THEN [coll |-> coll, ids |-> <<>>, err |-> embedding.err,
              requests |-> embedding.requests, added |-> 0]
        ELSE [coll |-> CollectionAdd(coll, document.content, document.metadata, doc_id),
              ids |-> <<doc_id>>, err |-> "none",
              requests |-> embedding.requests, added |-> 1]

\* the loop of add_documents, were a failed document skipped and the rest added
RECURSIVE AddDocumentsSkipFailed(_, _, _)
AddDocumentsSkipFailed(coll, documents, responses) ==
    IF Len(documents) = 0
    THEN [coll |-> coll, ids |-> <<>>, err |-> "none", requests |-> 0, added |-> 0]
    ELSE LET first == AddDocumentTo(coll, Head(documents), Head(responses))
             rest == AddDocumentsSkipFailed(first.coll, Tail(documents), Tail(responses))
         IN  [coll |-> rest.coll, ids |-> first.ids \o rest.ids,
              err |-> IF first.err # "none" THEN first.err ELSE rest.err,
              requests |-> first.requests + rest.requests,
              added |-> first.added + rest.added]

\* add_documents(documents): the loop stops at the first add_document that raises
RECURSIVE AddDocumentsTo(_, _, _)
AddDocumentsTo(coll, documents, responses) ==
    IF Len(documents) = 0
    THEN [coll |-> coll, ids |-> <<>>, err |-> "none", requests |-> 0, added |-> 0]
    ELSE LET first == AddDocumentTo(coll, Head(documents), Head(responses))
         IN  IF first.err # "none"
             THEN first
             ELSE LET rest == AddDocumentsTo(first.coll, Tail(documents), Tail(responses))
                  IN  [coll |-> rest.coll,
                       ids |-> IF rest.err = "none" THEN first.ids \o rest.ids ELSE <<>>,
                       err |-> rest.err,
                       requests |-> first.requests + rest.requests,
                       added |-> first.added + rest.added]

\* VectorStore.collection refers to the collection __init__ got ("initial"),
\* to one that reset created ("recreated"), or to one the client has deleted
\* ("deleted"); ChromaDB raises on every operation of a deleted collection.
\* add_document on a deleted collection: count() raises when the id is to be
\* generated, else collection.add raises once the content is embedded
AddDocumentGone(coll, document, response) ==
    LET embedding == CreateEmbedding(document.content, response)
        raised(err, requests) ==
            [coll |-> coll, ids |-> <<>>, err |-> err, requests |-> requests, added |-> 0]
    IN  IF ~Truthy(document.id) THEN raised("NotFoundError", 0)
        ELSE IF embedding.err # "none" THEN raised(embedding.err, embedding.requests)
        ELSE raised("NotFoundError", embedding.requests)

\* add_documents on a deleted collection: the first add_document raises
AddDocumentsGone(coll, documents, responses) ==
    IF Len(documents) = 0
    THEN [coll |-> coll, ids |-> <<>>, err |-> "none", requests |-> 0, added |-> 0]
    ELSE AddDocumentGone(coll, Head(documents), Head(responses))

\* reset, were the collection created again without `self.collection =`
ResetStoreHandleKept(coll) == [coll |-> <<>>, handle |-> "deleted"]

\* reset(): `delete_collection(name)`, then `self.collection = create_collection(name)`
ResetStore(coll) == [coll |-> <<>>, handle |-> "recreated"]

-----------------------------------------------------------------------------
(* VectorStore: similarity query *)

\* the distances the index may report for a stored document (d * Scale)
Distances == {0, Scale, (8 * Scale) \div 5}

\* a ChromaDB `where` dict: every key of it is a key of the metadata with that value
Matches(metadata, where) ==
    Len(where) = 0 \/
    \A key \in DOMAIN where[1] : key \in DOMAIN metadata /\ metadata[key] = where[1][key]

\* the stored documents as query hits, each with the distance the index computed
RECURSIVE Hits(_, _, _)
Hits(coll, dist, i) ==
    IF i > Len(coll) THEN <<>>
    ELSE <<[id |-> coll[i].id, content |-> coll[i].content,
            metadata |-> coll[i].metadata, distance |-> dist[i]]>> \o Hits(coll, dist, i + 1)

RECURSIVE Where(_, _)
Where(hits, where) ==
    IF Len(hits) = 0 THEN <<>>
    ELSE (IF Matches(Head(hits).metadata, where) THEN <<Head(hits)>> ELSE <<>>)
         \o Where(Tail(hits), where)

\* ascending distance, hits at the same distance in insertion order
RECURSIVE ByDistance(_)
ByDistance(hits) ==
    IF Len(hits) = 0 THEN <<>>
    ELSE LET hit == hits[Len(hits)]
             sorted == ByDistance(SubSeq(hits, 1, Len(hits) - 1))
             p == Cardinality({i \in DOMAIN sorted : sorted[i].distance <= hit.distance})
         IN  SubSeq(sorted, 1, p) \o <<hit>> \o SubSeq(sorted, p + 1, Len(sorted))

\* the query without its `where`
CollectionQueryIgnoreWhere(coll, dist, n_results, where) ==
    IF n_results <= 0
    THEN [err |-> "TypeError", hits |-> <<>>]
    ELSE LET ranked == ByDistance(Hits(coll, dist, 1))
         IN  [err |-> "none", hits |-> SubSeq(ranked, 1, Min(n_results, Len(ranked)))]

\* collection.query(n_results, where): ChromaDB rejects n_results <= 0
\* ("Number of requested results 0, cannot be negative, or zero.")
CollectionQuery(coll, dist, n_results, where) ==
    IF n_results <= 0
    THEN [err |-> "TypeError", hits |-> <<>>]
    ELSE LET ranked == ByDistance(Where(Hits(coll, dist, 1), where))
         IN  [err |-> "none", hits |-> SubSeq(ranked, 1, Min(n_results, Len(ranked)))]

\* the search, were every stored document asked for instead of min(k, count())
VectorStoreSearchAll(coll, query, k, filter_metadata, response, dist) ==
    LET query_embedding == CreateEmbedding(query, response)
    IN  IF query_embedding.err # "none"
        THEN [err |-> query_embedding.err, hits |-> <<>>, requests |-> query_embedding.requests]
        ELSE LET results == CollectionQuery(coll, dist, Len(coll), filter_metadata)
             IN  [err |-> results.err, hits |-> results.hits,
                  requests |-> query_embedding.requests]

\* VectorStore.search(query, k, filter_metadata)
VectorStoreSearch(coll, query, k, filter_metadata, response, dist) ==
    LET query_embedding == CreateEmbedding(query, response)
    IN  IF query_embedding.err # "none"
        THEN [err |-> query_embedding.err, hits |-> <<>>, requests |-> query_embedding.requests]
        ELSE LET results == CollectionQuery(coll, dist, Min(k, Len(coll)), filter_metadata)
             IN  [err |-> results.err, hits |-> results.hits,
                  requests |-> query_embedding.requests]

-----------------------------------------------------------------------------
(* DocumentRetriever *)

\* the similarity 1.0 in fixed point: 1 - d^2 / 2 = (2 Scale^2 - (d Scale)^2) / (2 Scale^2)
SimOne == 2 * Scale * Scale

\* the conversion without the max(0, ...)
SimilarityNoFloor(distance) == Min(SimOne, SimOne - distance * distance)

\* the conversion without the `1 -`
SimilarityOfDistance(distance) == Max(0, Min(SimOne, distance * distance))

\* `max(0, min(1, 1 - (distance ** 2 / 2)))`
Similarity(distance) == Max(0, Min(SimOne, SimOne - distance * distance))

\* RetrievalResult(content, metadata, similarity)
RetrievalResult(hit) ==
    [content |-> hit.content, metadata |-> hit.metadata,
     similarity |-> Similarity(hit.distance)]

\* the loop without its threshold test
RECURSIVE KeepAll(_, _)
KeepAll(hits, min_similarity) ==
    IF Len(hits) = 0 THEN <<>>
    ELSE <<RetrievalResult(Head(hits))>> \o KeepAll(Tail(hits), min_similarity)

\* the loop with the threshold test the wrong way round
RECURSIVE KeepBelow(_, _)
KeepBelow(hits, min_similarity) ==
    IF Len(hits) = 0 THEN <<>>
    ELSE (IF Similarity(Head(hits).distance) <= min_similarity
          THEN <<RetrievalResult(Head(hits))>> ELSE <<>>)
         \o KeepBelow(Tail(hits), min_similarity)

\* the loop of retrieve over the hits: a hit is kept if `similarity >= min_similarity`
RECURSIVE Keep(_, _)
Keep(hits, min_similarity) ==
    IF Len(hits) = 0 THEN <<>>
    ELSE (IF Similarity(Head(hits).distance) >= min_similarity
          THEN <<RetrievalResult(Head(hits))>> ELSE <<>>)
         \o Keep(Tail(hits), min_similarity)

\* retrieve, were a failed search answered with an empty list
RetrieveEmptyOnError(coll, query, k, min_similarity, filter_metadata, response, dist) ==
    LET raw_results == VectorStoreSearch(coll, query, k, filter_metadata, response, dist)
    IN  [err |-> "none",
         hits |-> IF raw_results.err # "none" THEN <<>> ELSE raw_results.hits,
         requests |-> raw_results.requests,
         results |-> IF raw_results.err # "none" \/ Len(raw_results.hits) = 0
                     THEN <<>>
                     ELSE Keep(raw_results.hits, min_similarity)]

\* retrieve(query, k, min_similarity, filter_metadata)
Retrieve(coll, query, k, min_similarity, filter_metadata, response, dist) ==
    LET raw_results == VectorStoreSearch(coll, query, k, filter_metadata, response, dist)
    IN  [err |-> raw_results.err, hits |-> raw_results.hits,
         requests |-> raw_results.requests,
         results |-> IF raw_results.err # "none" \/ Len(raw_results.hits) = 0
                     THEN <<>>
                     ELSE Keep(raw_results.hits, min_similarity)]

\* retrieve on a deleted collection: count() raises once the query is embedded
RetrieveGone(query, response) ==
    LET query_embedding == CreateEmbedding(query, response)
    IN  [err |-> IF query_embedding.err # "none" THEN query_embedding.err
                 ELSE "NotFoundError",
         hits |-> <<>>, requests |-> query_embedding.requests, results |-> <<>>]

\* one section of format_for_prompt (include_metadata = True)
Section(result, i) ==
    ("### Example " \o ToString(i))
    \o (IF "title" \in DOMAIN result.metadata THEN ": " \o result.metadata["title"] ELSE "")
    \o (IF "category" \in DOMAIN result.metadata
        THEN " [" \o result.metadata["category"] \o "]" ELSE "")
    \o "\n\n" \o result.content

\* the join, were the sections taken from the last result to the first
RECURSIVE JoinSectionsReversed(_, _)
JoinSectionsReversed(results, i) ==
    IF i > Len(results) THEN ""
    ELSE Section(results[Len(results) + 1 - i], i)
         \o (IF i < Len(results) THEN "\n\n---\n\n" ELSE "")
         \o JoinSectionsReversed(results, i + 1)

\* "\n\n---\n\n".join(sections[i..])
RECURSIVE JoinSections(_, _)
JoinSections(results, i) ==
    IF i > Len(results) THEN ""
    ELSE Section(results[i], i)
         \o (IF i < Len(results) THEN "\n\n---\n\n" ELSE "")
         \o JoinSections(results, i + 1)

\* format_for_prompt(results)
FormatForPrompt(results) == IF Len(results) = 0 THEN "" ELSE JoinSections(results, 1)

-----------------------------------------------------------------------------
(* KnowledgeBase *)

\* `{"category": category} if category else None`
FilterMeta(category) == IF Truthy(category) THEN <<Single("category", category)>> ELSE <<>>

ExampleDocumentMetadataWins(content, category, title, metadata, doc_id) ==
    Document(content, Update(CategoryTitle(category, title), OrEmpty(metadata)), doc_id)

\* add_example: `meta = metadata or {}; meta.update({"category": ..., "title": ...})`
ExampleDocument(content, category, title, metadata, doc_id) ==
    Document(content, Update(OrEmpty(metadata), CategoryTitle(category, title)), doc_id)

\* add_example: the caller's `metadata` after the call.  `metadata or {}` is
\* the caller's own dict unless that is None or empty, and meta.update
\* writes into it
MetadataAfter(metadata, category, title) ==
    IF Len(metadata) = 0 \/ DOMAIN metadata[1] = {}
    THEN metadata
    ELSE <<Update(metadata[1], CategoryTitle(category, title))>>

\* add_examples_bulk: the caller's example dicts after the call.
\* `ex.get('metadata', {})` is the example's own dict when it has the key
ExamplesAfter(examples) ==
    [i \in DOMAIN examples |->
        IF "metadata" \in DOMAIN examples[i]
        THEN Update(examples[i],
                    Single("metadata",
                           Update(examples[i]["metadata"],
                                  CategoryTitle(examples[i]["category"],
                                                examples[i]["title"]))))
        ELSE examples[i]]

\* add_examples_bulk: the Document built from one example dict
RECURSIVE BulkDocuments(_)
BulkDocuments(examples) ==
    IF Len(examples) = 0 THEN <<>>
    ELSE LET ex == Head(examples)
             meta == Update(Get(ex, "metadata", <<>>),
                            CategoryTitle(ex["category"], ex["title"]))
         IN  <<Document(ex["content"], meta, Get(ex, "id", Nil))>>
             \o BulkDocuments(Tail(examples))

\* export_to_json: one {"id", "content", "metadata"} object per stored document
RECURSIVE ExportData(_)
ExportData(coll) ==
    IF Len(coll) = 0 THEN <<>>
    ELSE <<[id |-> Head(coll).id, content |-> Head(coll).content,
            metadata |-> Head(coll).metadata]>> \o ExportData(Tail(coll))

\* import_from_json: the Document built from one object of the file
ImportedMeta(item) ==
    Update(Get(item, "metadata", <<>>),
           CategoryTitle(Get(item, "category", "unknown"), Get(item, "title", "Untitled")))

RECURSIVE ImportDocuments(_)
ImportDocuments(data) ==
    IF Len(data) = 0 THEN <<>>
    ELSE <<Document(Head(data)["content"], ImportedMeta(Head(data)), Get(Head(data), "id", Nil))>>
         \o ImportDocuments(Tail(data))

\* get_statistics()["total_documents"]
TotalDocuments(coll) == Len(coll)

\* a Python list and a Python dict, told apart
PyList(items) == [type |-> "list", value |-> items]
PyDict(mapping) == [type |-> "dict", value |-> mapping]

\* get_statistics: `cat = meta.get('category', 'unknown')`
CategoryOf(metadata) == Get(metadata, "category", "unknown")

\* get_statistics: `categories[cat] = categories.get(cat, 0) + 1` over the metadatas
Tally(coll) ==
    [cat \in {CategoryOf(coll[i].metadata) : i \in DOMAIN coll} |->
        Cardinality({i \in DOMAIN coll : CategoryOf(coll[i].metadata) = cat})]

\* get_statistics(): `{"total_documents": 0, "categories": []}` when there are
\* no metadatas, else the number of ids and the dict of tallies
Statistics(coll) ==
    IF Len(coll) = 0
    THEN [total_documents |-> 0, categories |-> PyList(<<>>)]
    ELSE [total_documents |-> TotalDocuments(coll), categories |-> PyDict(Tally(coll))]

\* retrieve_and_format: what retrieve returned, and the context formatted from it
Formatted(out) ==
    [err |-> out.err, hits |-> out.hits, requests |-> out.requests,
     results |-> out.results,
     context |-> IF out.err = "none" THEN FormatForPrompt(out.results) ELSE ""]

\* get_context(query, k, min_similarity, category) on a collection, `deleted`
\* telling whether the VectorStore still refers to a deleted collection
KnowledgeBaseGetContext(coll, deleted, query, k, min_similarity, category, response, dist) ==
    Formatted(IF deleted
              THEN RetrieveGone(query, response)
              ELSE Retrieve(coll, query, k, min_similarity, FilterMeta(category),
                            response, dist))

-----------------------------------------------------------------------------
(* Config and LLMService *)

\* Config(): the settings the pipeline reads.  A confidence c is the integer
\* 100 * c and a score s the integer 10 * s.
Config ==
    [MAX_RETRIES |-> 3, MIN_CONFIDENCE |-> 60, MIN_SCORE_FOR_DOCUMENT |-> 70]

\* one attempt of generate_structured: the response parses and validates into
\* the response model, or it does not (API error, no JSON, invalid fields)
Valid(model) == [valid |-> TRUE, model |-> <<model>>, message |-> ""]

\* an attempt that raises: `message` is str(e)
Failed(message) == [valid |-> FALSE, model |-> <<>>, message |-> message]

\* generate_structured, were a failed attempt not tried again
AttemptsNoRetry(attempts, attempt, max_retries) ==
    IF attempt >= max_retries
    THEN [err |-> "none", api_calls |-> attempt, model |-> <<>>]
    ELSE IF attempts[attempt + 1].valid
    THEN [err |-> "none", api_calls |-> attempt + 1, model |-> attempts[attempt + 1].model]
    ELSE [err |-> "Failed after " \o ToString(max_retries) \o " attempts: "
                  \o attempts[attempt + 1].message,
          api_calls |-> attempt + 1, model |-> <<>>]

\* the loop of generate_structured from attempt number `attempt` (counted
\* from 0): the first valid response is returned; the failure of the last
\* attempt raises Exception(f"Failed after {max_retries} attempts: {e}")
RECURSIVE Attempts(_, _, _)
Attempts(attempts, attempt, max_retries) ==
    IF attempt >= max_retries
    THEN [err |-> "none", api_calls |-> attempt, model |-> <<>>]
    ELSE IF attempts[attempt + 1].valid
    THEN [err |-> "none", api_calls |-> attempt + 1, model |-> attempts[attempt + 1].model]
    ELSE IF attempt = max_retries - 1
    THEN [err |-> "Failed after " \o ToString(max_retries) \o " attempts: "
                  \o attempts[attempt + 1].message,
          api_calls |-> attempt + 1, model |-> <<>>]
    ELSE Attempts(attempts, attempt + 1, max_retries)

\* generate_structured(prompt, response_model, system_prompt, temperature,
\* max_retries): `max_retries = max_retries or self.config.MAX_RETRIES`
\* (0 stands for None as well)
GenerateStructured(config, attempts, max_retries) ==
    Attempts(attempts, 0, IF max_retries = 0 THEN config["MAX_RETRIES"] ELSE max_retries)

-----------------------------------------------------------------------------
(* DocumentGenerator *)

\* separator.join(items)
RECURSIVE Join(_, _)
Join(separator, items) ==
    IF Len(items) = 0 THEN ""
    ELSE IF Len(items) = 1 THEN items[1]
    ELSE items[1] \o separator \o Join(separator, Tail(items))

\* Tender, the fields the generator reads
Tender(title, description, organization) ==
    [title |-> title, description |-> description, organization |-> organization]

\* generate: prompt_base
PromptBase(tender, categories, strengths) ==
    "Create compelling bid document content for this tender:\n\nTENDER: " \o tender.title
    \o "\nCLIENT: " \o tender.organization
    \o "\nOUR EXPERTISE: " \o Join(", ", categories)
    \o "\nKEY STRENGTHS: " \o Join(", ", strengths)
    \o "\nREQUIREMENTS: " \o tender.description

\* generate: the prompt with the examples block, and the one without
WithExamples(prompt_base, context) ==
    prompt_base \o "\n\n---\nHIGH-QUALITY EXAMPLES (for reference):\n\n" \o context
    \o "\n---\n\nUsing the quality and structure demonstrated in the examples above, generate:"

WithoutExamples(prompt_base) == prompt_base \o "\n\nGenerate:"

\* generate: the generation instructions appended to the prompt
Instructions ==
    "\n1. EXECUTIVE SUMMARY: 2-3 paragraphs highlighting our value proposition"
    \o "\n2. TECHNICAL APPROACH: Our methodology and solution design"
    \o "\n3. VALUE PROPOSITION: Why we're the best choice (unique differentiators)"
    \o "\n4. TIMELINE ESTIMATE: Realistic project phases and milestones"
    \o "\n\nMake it professional, specific to this tender, and compelling."
    \o "\nUse concrete language, avoid generic statements."

\* generate: the prompt, with the examples block `if context`
Prompt(prompt_base, context) ==
    (IF context # "" THEN WithExamples(prompt_base, context)
     ELSE WithoutExamples(prompt_base)) \o Instructions

\* no call of get_context
NoContext ==
    [err |-> "none", hits |-> <<>>, requests |-> 0, results |-> <<>>, context |-> ""]

\* generate, from what get_context gave (`asked`: it was called) and from
\* what generate_structured gives: an error of get_context ends the call
\* before the LLM is asked
Generated(category, asked, retrieved, prompt_base, llm) ==
    IF retrieved.err # "none"
    THEN [err |-> retrieved.err, retrieved |-> retrieved, category |-> category,
          called |-> IF asked THEN <<"get_context">> ELSE <<>>,
          prompt |-> "", api_calls |-> 0, document |-> <<>>]
    ELSE [err |-> llm.err, retrieved |-> retrieved, category |-> category,
          called |-> (IF asked THEN <<"get_context">> ELSE <<>>)
                     \o <<"generate_structured">>,
          prompt |-> Prompt(prompt_base, retrieved.context),
          api_calls |-> llm.api_calls, document |-> llm.model]

\* `category = categories[0] if categories else None`
FirstCategory(categories) == IF Len(categories) > 0 THEN categories[1] ELSE Nil

\* DocumentGenerator.generate(tender, categories, strengths) of a generator
\* built with `config` and with the knowledge base whose collection is `coll`
\* (has_kb: `knowledge_base is not None`).  The arguments of get_context are
\* evaluated before the call: reading an attribute the config does not have
\* raises AttributeError.
DocumentGeneratorGenerate(has_kb, coll, deleted, config, tender, categories, strengths, response, dist, attempts) ==
    Generated(FirstCategory(categories),
              has_kb /\ "RAG_MIN_SIMILARITY" \in DOMAIN config,
              IF ~has_kb THEN NoContext
              ELSE IF "RAG_MIN_SIMILARITY" \notin DOMAIN config
              THEN [NoContext EXCEPT !.err = "AttributeError"]
              ELSE KnowledgeBaseGetContext(coll, deleted, tender.description, 2,
                                           config["RAG_MIN_SIMILARITY"],
                                           FirstCategory(categories), response, dist),
              PromptBase(tender, categories, strengths),
              GenerateStructured(config, attempts, 0))

-----------------------------------------------------------------------------
(* ProcurementOrchestrator *)

\* process_tender, were only `is_relevant` tested
FilteredOutByRelevance(config, filter_result) == ~filter_result.is_relevant

\* process_tender: `not is_relevant or confidence < self.config.MIN_CONFIDENCE`
FilteredOut(config, filter_result) ==
    ~filter_result.is_relevant \/ filter_result.confidence < config["MIN_CONFIDENCE"]

\* process_tender, were a score at the threshold rated low as well
RatedLowAtThreshold(config, rating_result) ==
    rating_result.overall_score <= config["MIN_SCORE_FOR_DOCUMENT"]

\* process_tender: `overall_score < self.config.MIN_SCORE_FOR_DOCUMENT`
RatedLow(config, rating_result) ==
    rating_result.overall_score < config["MIN_SCORE_FOR_DOCUMENT"]

\* ProcessedTender(tender=tender)
Pending ==
    [status |-> "pending", filter_result |-> <<>>, rating_result |-> <<>>,
     bid_document |-> <<>>, called |-> <<>>, api_calls |-> 0,
     raised |-> "none"]   \* the exception that leaves process_tender

\* process_tender, were the exception of the generator not caught
GenerateStepUncaught(result, document) ==
    [result EXCEPT !.called = @ \o <<"generate">>,
                   !.api_calls = @ + document.api_calls,
                   !.bid_document = document.document,
                   !.raised = document.err,
                   !.status = IF document.err # "none" THEN "pending" ELSE "complete"]

\* process_tender, step 3: the generator has been called
GenerateStep(result, document) ==
    [result EXCEPT !.called = @ \o <<"generate">>,
                   !.api_calls = @ + document.api_calls,
                   !.bid_document = document.document,
                   !.status = IF document.err # "none" THEN "error: " \o document.err
                              ELSE "complete"]

\* process_tender, step 2: the rating agent has been called; the orchestrator's
\* DocumentGenerator has no knowledge base
RatingStep(config, tender, result, categories, rating, document_attempts) ==
    IF rating.err # "none" \/ RatedLow(config, rating.model[1])
    THEN [result EXCEPT !.called = @ \o <<"rate">>,
                        !.api_calls = @ + rating.api_calls,
                        !.rating_result = rating.model,
                        !.status = IF rating.err # "none" THEN "error: " \o rating.err
                                   ELSE "rated_low"]
    ELSE GenerateStep([result EXCEPT !.called = @ \o <<"rate">>,
                                     !.api_calls = @ + rating.api_calls,
                                     !.rating_result = rating.model],
                      DocumentGeneratorGenerate(FALSE, <<>>, FALSE, config, tender,
                                                categories, rating.model[1].strengths,
                                                "vector", <<>>, document_attempts))

\* process_tender, step 1: the filter agent has been called
FilterStep(config, tender, filter, rating_attempts, document_attempts) ==
    IF filter.err # "none" \/ FilteredOut(config, filter.model[1])
    THEN [Pending EXCEPT !.called = <<"filter">>,
                         !.api_calls = filter.api_calls,
                         !.filter_result = filter.model,
                         !.status = IF filter.err # "none" THEN "error: " \o filter.err
                                    ELSE "filtered_out"]
    ELSE RatingStep(config, tender,
                    [Pending EXCEPT !.called = <<"filter">>,
                                    !.api_calls = filter.api_calls,
                                    !.filter_result = filter.model],
                    filter.model[1].categories,
                    GenerateStructured(config, rating_attempts, 0), document_attempts)

\* process_tender(tender): the ProcessedTender returned, the agents called
\* and the requests sent to the LLM.  The three agents share the LLMService.
\* Whatever an agent raises becomes the status "error: {e}".
ProcessTenderOf(config, tender, filter_attempts, rating_attempts, document_attempts) ==
    FilterStep(config, tender, GenerateStructured(config, filter_attempts, 0),
               rating_attempts, document_attempts)

-----------------------------------------------------------------------------
(* Coroutines: a call of add_document, add_documents or create_embeddings *)
(* run as a task.  A task runs without interruption up to the await of    *)
(* the embedding request (`await client.post`) and is resumed when the    *)
(* provider has answered; other tasks run in between.                     *)

\* a task that runs nothing
NoTask ==
    [op |-> "none", kb |-> Nil,
     documents |-> <<>>,   \* the documents (for create_embeddings: the texts) of the call
     next |-> 0,           \* the index of the document the loop is at
     doc_id |-> Nil,       \* the doc_id add_document computed for it before the await
     inflight |-> {},      \* the indexes whose embedding request is sent and not answered
     pre |-> 0,            \* count() when the call began
     during |-> {},        \* the tasks whose call was suspended when this call began
     ids |-> <<>>,         \* the ids add_document has returned so far
     embedded |-> 0,       \* the embeddings received
     pc |-> "idle",        \* "awaiting", "returned" or "raised"
     err |-> "none"]

\* the calls that insert what they embed
Inserting == {"add_document", "add_documents"}

\* the loops, were the embedding requests of all remaining texts sent at once
AwaitedGathered(documents, i) == i .. Len(documents)

\* `emb = await self.create_embedding(text)`, `doc_id = await
\* self.add_document(doc)`: the loop awaits the request of document i alone
Awaited(documents, i) == {i}

\* the task reaches document i: past the last document the call returns;
\* else add_document computes doc_id from count(), and create_embedding
\* raises on a blank text or sends the request and awaits the answer
Reach(coll, task, i) ==
    IF i > Len(task.documents)
    THEN [task EXCEPT !.next = i, !.pc = "returned"]
    ELSE IF IsBlank(task.documents[i].content)
    THEN [task EXCEPT !.next = i, !.pc = "raised", !.err = "ValueError", !.ids = <<>>,
                      !.doc_id = IF task.op \in Inserting
                                 THEN DocId(coll, task.documents[i]) ELSE Nil]
    ELSE [task EXCEPT !.next = i, !.pc = "awaiting",
                      !.doc_id = IF task.op \in Inserting
                                 THEN DocId(coll, task.documents[i]) ELSE Nil,
                      !.inflight = @ \cup Awaited(task.documents, i)]

\* the collection once the task has its embedding: collection.add
Stored(coll, task) ==
    IF task.op \in Inserting
    THEN CollectionAdd(coll, task.documents[task.next].content,
                       task.documents[task.next].metadata, task.doc_id)
    ELSE coll

\* the task once its request is answered with a vector: add_document returns
\* doc_id, and add_document is done while a loop goes on to the next document
Answered(coll, task) ==
    IF task.op = "add_document"
    THEN [task EXCEPT !.inflight = @ \ {task.next}, !.embedded = @ + 1,
                      !.ids = @ \o <<task.doc_id>>, !.pc = "returned"]
    ELSE Reach(coll, [task EXCEPT !.inflight = @ \ {task.next}, !.embedded = @ + 1,
                                  !.ids = IF task.op \in Inserting
                                          THEN @ \o <<task.doc_id>> ELSE @],
               task.next + 1)

\* the task once its request has failed: raise_for_status raises
Refused(task) ==
    [task EXCEPT !.inflight = @ \ {task.next}, !.pc = "raised", !.err = "HTTPError",
                 !.ids = <<>>]

-----------------------------------------------------------------------------
(* State *)

\* the collections: kb1 is the knowledge base under test, kb2 a second
\* KnowledgeBase with its own collection name (the target of an import)
Names == {"kb1", "kb2"}

\* the tasks of the event loop
TaskIds == {"t1", "t2"}

\* a call record with nothing in it
NoCall ==
    [op |-> "none", kb |-> Nil, err |-> "none", requests |-> 0,
     gateway |-> "none",   \* the error the EmbeddingService raised during the call
     pre |-> 0,            \* count() when the call was made
     contents |-> <<>>,    \* the content of each document passed in, or the text embedded
     supplied |-> <<>>,    \* the id of each document passed in (None when it has none)
     ids |-> <<>>,         \* the ids returned
     k |-> 0, min_similarity |-> 0, category |-> Nil,
     title |-> Nil,        \* the title passed to add_example
     metadata |-> <<>>,    \* the metadata passed to add_example (Optional[Dict])
     metadata_after |-> <<>>,  \* the caller's metadata dict once add_example is over
     examples |-> <<>>,        \* the examples passed to add_examples_bulk
     examples_after |-> <<>>,  \* the caller's example dicts once the call is over
     hits |-> <<>>,        \* what VectorStore.search returned
     results |-> <<>>,     \* what retrieve returned
     context |-> "",       \* what get_context returned
     returned |-> 0,       \* what import_from_json returned
     stats |-> <<>>,       \* what get_statistics returned
     config |-> <<>>,      \* the Config the generator was built with
     attempts |-> <<>>,    \* what each attempt of the generator's LLM call would yield
                           \* (process_tender: of the filter agent's LLM call)
     rating_attempts |-> <<>>,    \* process_tender: the same for the rating agent
     document_attempts |-> <<>>,  \* process_tender: the same for the generator
     max_retries |-> 0,    \* the max_retries passed to generate_structured (0: None)
     called |-> <<>>,      \* the collaborators called, in order
     api_calls |-> 0,      \* the requests sent to the LLM
     prompt |-> "",        \* the prompt passed to generate_structured
     document |-> <<>>,    \* the BidDocument returned by generate (Optional)
     result |-> <<>>]      \* the ProcessedTender returned by process_tender (Optional)

RECURSIVE ContentsOf(_)
ContentsOf(documents) ==
    IF Len(documents) = 0 THEN <<>>
    ELSE <<Head(documents).content>> \o ContentsOf(Tail(documents))

Init ==
    /\ collections = [name \in Names |-> <<>>]
    /\ file = <<>>
    /\ adds = [name \in Names |-> 0]
    /\ handle = [name \in Names |-> "initial"]
    /\ last = NoCall
    /\ tasks = [t \in TaskIds |-> NoTask]

-----------------------------------------------------------------------------
(* Operations *)

\* the outcome of an insertion call, recorded with the arguments in `call`
Inserted(call, kb, documents, out) ==
    /\ collections' = [collections EXCEPT ![kb] = out.coll]
    /\ adds' = [adds EXCEPT ![kb] = @ + out.added]
    /\ last' = [call EXCEPT !.kb = kb, !.err = out.err,
                            !.requests = out.requests,
                            !.pre = Len(collections[kb]),
                            !.contents = ContentsOf(documents),
                            !.supplied = [i \in DOMAIN documents |-> documents[i].id],
                            !.ids = out.ids]
    /\ UNCHANGED <<file, handle, tasks>>

\* EmbeddingService.create_embedding(text)
EmbedText(text) ==
    \E response \in ProviderResponses :
        LET out == CreateEmbedding(text, response)
        IN  /\ last' = [NoCall EXCEPT !.op = "create_embedding", !.err = out.err,
                                      !.gateway = GatewayError(<<text>>, <<response>>),
                                      !.requests = out.requests,
                                      !.contents = <<text>>]
            /\ UNCHANGED <<collections, file, adds, handle, tasks>>

\* VectorStore.add_document(document)
AddDocument(kb, document) ==
    /\ adds[kb] < MaxAdds
    /\ \E response \in ProviderResponses :
        Inserted([NoCall EXCEPT !.op = "add_document",
                                !.gateway = GatewayError(<<document.content>>, <<response>>)],
                 kb, <<document>>,
                 IF handle[kb] = "deleted"
                 THEN AddDocumentGone(collections[kb], document, response)
                 ELSE AddDocumentTo(collections[kb], document, response))

\* KnowledgeBase.add_example(content, category, title, metadata, doc_id)
AddExample(kb, content, category, title, metadata, doc_id) ==
    /\ adds[kb] < MaxAdds
    /\ \E response \in ProviderResponses :
        LET doc == ExampleDocument(content, category, title, metadata, doc_id)
        IN  Inserted([NoCall EXCEPT !.op = "add_example", !.category = category,
                                        !.title = title, !.metadata = metadata,
                                        !.metadata_after = MetadataAfter(metadata, category, title),
                                        !.gateway = GatewayError(<<content>>, <<response>>)],
                     kb, <<doc>>,
                     IF handle[kb] = "deleted"
                     THEN AddDocumentGone(collections[kb], doc, response)
                     ELSE AddDocumentTo(collections[kb], doc, response))

\* KnowledgeBase.add_examples_bulk(examples)
AddExamplesBulk(kb, examples) ==
    /\ adds[kb] + Len(examples) <= MaxAdds
    /\ \E responses \in [1 .. Len(examples) -> ProviderResponses] :
        LET documents == BulkDocuments(examples)
        IN  Inserted([NoCall EXCEPT !.op = "add_examples_bulk",
                                        !.examples = examples,
                                        !.examples_after = ExamplesAfter(examples),
                                        !.gateway = GatewayError(ContentsOf(documents), responses)],
                     kb, documents,
                     IF handle[kb] = "deleted"
                     THEN AddDocumentsGone(collections[kb], documents, responses)
                     ELSE AddDocumentsTo(collections[kb], documents, responses))

\* KnowledgeBase.reset() -> VectorStore.reset(): the collection is deleted
\* and created again
Reset(kb) ==
    LET out == ResetStore(collections[kb])
    IN  /\ collections' = [collections EXCEPT ![kb] = out.coll]
        /\ handle' = [handle EXCEPT ![kb] = out.handle]
        /\ adds' = [adds EXCEPT ![kb] = 0]
        /\ last' = [NoCall EXCEPT !.op = "reset", !.kb = kb, !.pre = Len(collections[kb])]
        /\ UNCHANGED <<file, tasks>>

\* the outcome of a retrieval call, recorded with the arguments in `call`
Retrieved(call, kb, query, k, min_similarity, category, out, context) ==
    /\ last' = [call EXCEPT !.kb = kb, !.err = out.err,
                            !.requests = out.requests,
                            !.pre = Len(collections[kb]),
                            !.contents = <<query>>,
                            !.k = k, !.min_similarity = min_similarity,
                            !.category = category,
                            !.hits = out.hits, !.results = out.results,
                            !.context = context]
    /\ UNCHANGED <<collections, file, adds, handle, tasks>>

\* the distances the index may compute for the stored documents; it is asked
\* only once the query has been embedded
IndexAnswers(coll, query, response) ==
    IF CreateEmbedding(query, response).err = "none"
    THEN [1 .. Len(coll) -> Distances]
    ELSE {[i \in 1 .. Len(coll) |-> 0]}

\* KnowledgeBase.search(query, k, min_similarity, category)
Search(kb, query, k, min_similarity, category) ==
    \E response \in ProviderResponses :
        \E dist \in IndexAnswers(collections[kb], query, response) :
            LET out == IF handle[kb] = "deleted"
                       THEN RetrieveGone(query, response)
                       ELSE Retrieve(collections[kb], query, k, min_similarity,
                                     FilterMeta(category), response, dist)
            IN  Retrieved([NoCall EXCEPT !.op = "search",
                                         !.gateway = GatewayError(<<query>>, <<response>>)],
                          kb, query, k, min_similarity, category, out, "")

\* KnowledgeBase.get_context(query, k, min_similarity, category)
GetContext(kb, query, k, min_similarity, category) ==
    \E response \in ProviderResponses :
        \E dist \in IndexAnswers(collections[kb], query, response) :
            LET out == KnowledgeBaseGetContext(collections[kb], handle[kb] = "deleted",
                                               query, k, min_similarity, category,
                                               response, dist)
            IN  Retrieved([NoCall EXCEPT !.op = "get_context",
                                         !.gateway = GatewayError(<<query>>, <<response>>)],
                          kb, query, k, min_similarity, category, out, out.context)

\* KnowledgeBase.get_statistics()
GetStatistics(kb) ==
    /\ last' = IF handle[kb] = "deleted"
               THEN [NoCall EXCEPT !.op = "get_statistics", !.kb = kb,
                                   !.err = "NotFoundError"]
               ELSE [NoCall EXCEPT !.op = "get_statistics", !.kb = kb,
                                   !.pre = Len(collections[kb]),
                                   !.stats = Statistics(collections[kb])]
    /\ UNCHANGED <<collections, file, adds, handle, tasks>>

\* the outcome of a generate call, recorded with the arguments in `call`
GenerateReturned(call, out) ==
    /\ last' = [call EXCEPT !.err = out.err,
                            !.requests = out.retrieved.requests,
                            !.category = out.category,
                            !.hits = out.retrieved.hits,
                            !.results = out.retrieved.results,
                            !.context = out.retrieved.context,
                            !.called = out.called, !.api_calls = out.api_calls,
                            !.prompt = out.prompt, !.document = out.document]
    /\ UNCHANGED <<collections, file, adds, handle, tasks>>

\* DocumentGenerator(llm, config, knowledge_base).generate(tender, categories,
\* strengths); kb is Nil for a generator without a knowledge base
Generate(kb, config, tender, categories, strengths, attempts) ==
    \E response \in ProviderResponses :
        \E dist \in (IF kb # Nil /\ "RAG_MIN_SIMILARITY" \in DOMAIN config
                      THEN IndexAnswers(collections[kb], tender.description, response)
                      ELSE {<<>>}) :
            GenerateReturned(
                [NoCall EXCEPT !.op = "generate", !.kb = kb, !.config = config,
                               !.attempts = attempts,
                               !.gateway = IF kb # Nil /\ "RAG_MIN_SIMILARITY" \in DOMAIN config
                                           THEN GatewayError(<<tender.description>>, <<response>>)
                                           ELSE "none",
                               !.pre = IF kb # Nil THEN Len(collections[kb]) ELSE 0,
                               !.contents = <<tender.description>>],
                IF kb # Nil
                THEN DocumentGeneratorGenerate(TRUE, collections[kb], handle[kb] = "deleted",
                                               config, tender, categories, strengths,
                                               response, dist, attempts)
                ELSE DocumentGeneratorGenerate(FALSE, <<>>, FALSE, config, tender,
                                               categories, strengths, response, dist,
                                               attempts))

\* LLMService(config).generate_structured(prompt, response_model,
\* system_prompt, temperature, max_retries), the LLM answering as the attempts say
CallGenerateStructured(config, attempts, max_retries) ==
    LET out == GenerateStructured(config, attempts, max_retries)
    IN  /\ last' = [NoCall EXCEPT !.op = "generate_structured", !.config = config,
                                  !.attempts = attempts, !.max_retries = max_retries,
                                  !.err = out.err, !.api_calls = out.api_calls,
                                  !.document = out.model]
        /\ UNCHANGED <<collections, file, adds, handle, tasks>>

\* the ProcessedTender that process_tender returned, recorded
Processed(call, out) ==
    /\ last' = [call EXCEPT !.err = out.raised,
                            !.called = out.called, !.api_calls = out.api_calls,
                            !.result = <<out>>]
    /\ UNCHANGED <<collections, file, adds, handle, tasks>>

\* ProcurementOrchestrator(config).process_tender(tender), the LLM answering
\* the filter agent, the rating agent and the generator as the attempts say
ProcessTender(config, tender, filter_attempts, rating_attempts, document_attempts) ==
    Processed([NoCall EXCEPT !.op = "process_tender", !.config = config,
                             !.attempts = filter_attempts,
                             !.rating_attempts = rating_attempts,
                             !.document_attempts = document_attempts],
              ProcessTenderOf(config, tender, filter_attempts, rating_attempts,
                              document_attempts))

\* the documents that the suspended tasks may still add to the collection
RECURSIVE Outstanding(_, _)
Outstanding(kb, among) ==
    IF among = {} THEN 0
    ELSE LET t == CHOOSE task \in among : TRUE
         IN  (IF tasks[t].pc = "awaiting" /\ tasks[t].op \in Inserting /\ tasks[t].kb = kb
              THEN Len(tasks[t].documents) - tasks[t].next + 1 ELSE 0)
             + Outstanding(kb, among \ {t})

\* a task begins a call on the store of kb and runs to its first await
Begin(t, op, kb, documents) ==
    /\ tasks[t].pc # "awaiting"
    /\ tasks' = [u \in TaskIds |->
                    IF u # t
                    THEN [tasks[u] EXCEPT !.during = @ \ {t}]
                    ELSE Reach(collections[kb],
                               [NoTask EXCEPT !.op = op, !.kb = kb, !.documents = documents,
                                              !.pre = Len(collections[kb]),
                                              !.during = {v \in TaskIds \ {t} :
                                                            tasks[v].pc = "awaiting"}],
                               1)]
    /\ UNCHANGED <<collections, file, adds, handle, last>>

\* the provider answers the request a task awaits, and the task runs on to
\* its next await or to its end
Resume(t) ==
    /\ tasks[t].pc = "awaiting"
    /\ \E response \in ProviderResponses :
        IF CreateEmbedding(tasks[t].documents[tasks[t].next].content, response).err # "none"
        THEN /\ tasks' = [tasks EXCEPT ![t] = Refused(tasks[t])]
             /\ UNCHANGED <<collections, adds>>
        ELSE /\ collections' = [collections EXCEPT ![tasks[t].kb] = Stored(@, tasks[t])]
             /\ adds' = [adds EXCEPT ![tasks[t].kb] =
                            IF tasks[t].op \in Inserting THEN @ + 1 ELSE @]
             /\ tasks' = [tasks EXCEPT ![t] =
                            Answered(Stored(collections[tasks[t].kb], tasks[t]), tasks[t])]
    /\ UNCHANGED <<file, handle, last>>

\* KnowledgeBase.count() -> VectorStore.count() -> collection.count()
KnowledgeBaseCount(kb) ==
    /\ last' = IF handle[kb] = "deleted"
               THEN [NoCall EXCEPT !.op = "count", !.kb = kb, !.err = "NotFoundError"]
               ELSE [NoCall EXCEPT !.op = "count", !.kb = kb,
                                   !.pre = Len(collections[kb]),
                                   !.returned = Len(collections[kb])]
    /\ UNCHANGED <<collections, file, adds, handle, tasks>>

\* export_to_json, were the documents taken out of the collection as they
\* are written to the file
ExportToJsonMoving(kb) ==
    /\ file' = <<ExportData(collections[kb])>>
    /\ collections' = [collections EXCEPT ![kb] = <<>>]
    /\ last' = [NoCall EXCEPT !.op = "export_to_json", !.kb = kb,
                              !.pre = Len(collections[kb])]
    /\ UNCHANGED <<adds, handle, tasks>>

\* KnowledgeBase.export_to_json(filepath)
ExportToJson(kb) ==
    /\ IF handle[kb] = "deleted"
       THEN /\ last' = [NoCall EXCEPT !.op = "export_to_json", !.kb = kb,
                                      !.err = "NotFoundError"]
            /\ UNCHANGED file
       ELSE /\ file' = <<ExportData(collections[kb])>>
            /\ last' = [NoCall EXCEPT !.op = "export_to_json", !.kb = kb,
                                      !.pre = Len(collections[kb])]
    /\ UNCHANGED <<collections, adds, handle, tasks>>

\* a JSON file written by hand, in the format import_from_json reads
WriteJson(data) ==
    /\ file' = <<data>>
    /\ last' = [NoCall EXCEPT !.op = "write_json"]
    /\ UNCHANGED <<collections, adds, handle, tasks>>

\* KnowledgeBase.import_from_json(filepath), the file being there
ImportFromJson(kb) ==
    /\ Len(file) = 1
    /\ adds[kb] + Len(file[1]) <= MaxAdds
    /\ \E responses \in [1 .. Len(file[1]) -> ProviderResponses] :
        LET documents == ImportDocuments(file[1])
            out == IF handle[kb] = "deleted"
                   THEN AddDocumentsGone(collections[kb], documents, responses)
                   ELSE AddDocumentsTo(collections[kb], documents, responses)
        IN  /\ collections' = [collections EXCEPT ![kb] = out.coll]
            /\ adds' = [adds EXCEPT ![kb] = @ + out.added]
            /\ last' = [NoCall EXCEPT !.op = "import_from_json", !.kb = kb,
                                      !.err = out.err, !.requests = out.requests,
                                      !.gateway = GatewayError(ContentsOf(documents), responses),
                                      !.pre = Len(collections[kb]),
                                      !.contents = ContentsOf(documents),
                                      !.returned = IF out.err = "none"
                                                   THEN Len(documents) ELSE 0]
            /\ UNCHANGED <<file, handle, tasks>>

-----------------------------------------------------------------------------
(* Inputs *)

\* texts that are empty once stripped
BlankTexts == {"", " "}

\* an id the caller supplies is one the collection does not hold yet
SuppliedIds == {"doc_2", "x"}
CallerIds(kb) == {Nil} \cup (SuppliedIds \ Ids(collections[kb]))

\* an example dict of add_examples_bulk, without the optional keys
Example(content, category, title) ==
    [key \in {"content", "category", "title"} |->
        CASE key = "content" -> content
          [] key = "category" -> category
          [] key = "title" -> title]

\* the longest list passed to add_examples_bulk
MaxBulk == 3

BulkLists ==
    UNION {[1 .. n -> {Example(content, "ai", "T") : content \in {"", "a"}}] :
           n \in 1 .. MaxBulk}

\* k and min_similarity of a retrieval call (-1.0, 0.0, 0.5 and 0.9)
Ks == {1, 3}
Thresholds == {0 - SimOne, 0, SimOne \div 2, (9 * SimOne) \div 10}
Categories == {"ai", "cyber"}

\* documents a collection may hold while it is queried or exported
MaxStored == 2

\* documents the knowledge base of a DocumentGenerator may hold
MaxExamples == 1

\* the Config of config.py, and one on which the caller has set
\* RAG_MIN_SIMILARITY (to 0.5)
Configs == {Config, Update(Config, Single("RAG_MIN_SIMILARITY", SimOne \div 2))}

\* the i-th request gets an HTTP status other than 200 (501, 502, ...)
ApiError(i) == Failed("API error: " \o ToString(500 + i))

\* the LLM's responses to the attempts of one generate_structured call: the
\* first n are invalid, the i-th of the others validates into models[i]
AfterFailures(config, n, models) ==
    [i \in 1 .. config["MAX_RETRIES"] |-> IF i <= n THEN ApiError(i) ELSE Valid(models[i])]

\* the BidDocument in the i-th response of the LLM
BidDocument(i) == [executive_summary |-> "summary " \o ToString(i)]

\* what the i-th attempt of a generate_structured call may yield: a response
\* that validates, an HTTP error, or a response that is not JSON
Outcomes(i) ==
    {Valid(BidDocument(i)), ApiError(i), Failed("Response doesn't look like JSON: Sure!...")}

\* the outcomes of n attempts
AttemptLists(n) ==
    {attempts \in [1 .. n -> UNION {Outcomes(i) : i \in 1 .. n}] :
        \A i \in 1 .. n : attempts[i] \in Outcomes(i)}

BidAttempts(config) ==
    {AfterFailures(config, n, [i \in 1 .. config["MAX_RETRIES"] |-> BidDocument(i)]) :
        n \in 0 .. config["MAX_RETRIES"]}

\* FilterResult and RatingResult, the fields process_tender reads; the LLM
\* answers an agent at once or never
FilterResults ==
    {[is_relevant |-> is_relevant, confidence |-> confidence, categories |-> <<"ai">>] :
        is_relevant \in BOOLEAN, confidence \in {50, 60, 95}}

RatingResults ==
    {[overall_score |-> overall_score, strengths |-> <<"s">>] :
        overall_score \in {65, 70, 85}}

AgentAttempts(config, models) ==
    {[i \in 1 .. config["MAX_RETRIES"] |-> Valid(model)] : model \in models}
    \cup {[i \in 1 .. config["MAX_RETRIES"] |-> ApiError(i)]}

\* the dict {"category": category, "title": title, "year": year}
Tagged(category, title, year) ==
    Update(CategoryTitle(category, title), Single("year", year))

\* the metadata argument of add_example: None, {}, a dict without the keys
\* category and title, and dicts that hold one or both of them already
MetadataArgs ==
    {<<>>, <<(<<>>)>>, <<Single("year", "2025")>>, <<Single("category", "zz")>>,
     <<Tagged("zz", "Z", "2025")>>}

-----------------------------------------------------------------------------
(* Insertion: documents are added to kb1, one at a time and in bulk *)

Next ==
    \/ \E text \in BlankTexts \cup {"a", " a "} : EmbedText(text)
    \/ \E content \in BlankTexts \cup {"a"}, id \in CallerIds("kb1") \cup {""} :
        AddDocument("kb1", Document(content, Single("title", "T"), id))
    \/ \E content \in BlankTexts \cup {"a"}, id \in CallerIds("kb1") :
        AddExample("kb1", content, "ai", "T", <<>>, id)
    \/ \E examples \in BulkLists : AddExamplesBulk("kb1", examples)
    \/ Reset("kb1")

Spec == Init /\ [][Next]_vars

(* Retrieval: kb1 holds a few examples and is searched *)

NextRetrieval ==
    \/ /\ Len(collections["kb1"]) < MaxStored
       /\ \E example \in {<<"a", "ai">>, <<"b", "cyber">>} :
            AddExample("kb1", example[1], example[2], "T", <<>>, Nil)
    \/ \E k \in Ks, min_similarity \in Thresholds, category \in Categories \cup {Nil} :
            Search("kb1", "q", k, min_similarity, category)

SpecRetrieval == Init /\ [][NextRetrieval]_vars

(* Context: kb1 holds examples and a document without a category, and the *)
(* generator asks it for context                                          *)

NextContext ==
    \/ /\ Len(collections["kb1"]) < MaxStored
       /\ \E example \in {<<"a", "ai">>, <<"b", "cyber">>} :
            AddExample("kb1", example[1], example[2], "T", <<>>, Nil)
    \/ /\ Len(collections["kb1"]) < MaxStored
       /\ AddDocument("kb1", Document("c", Single("title", "U"), Nil))
    \/ \E min_similarity \in {0, SimOne \div 2}, category \in Categories \cup {Nil} :
            GetContext("kb1", "q", 3, min_similarity, category)
    \/ \E category \in Categories : Search("kb1", "q", 3, 0, category)

SpecContext == Init /\ [][NextContext]_vars

(* Snapshots: kb1 is built with add_example, exported, and imported into kb2 *)

NextSnapshot ==
    \/ /\ Len(collections["kb1"]) < MaxStored
       /\ \E content \in {"a", "b"}, category \in Categories, metadata \in {<<>>, <<Single("year", "2025")>>} :
            AddExample("kb1", content, category, "T", metadata, Nil)
    \/ ExportToJson("kb1")
    \/ ImportFromJson("kb2")
    \/ Reset("kb2")

SpecSnapshot == Init /\ [][NextSnapshot]_vars

(* Curation: examples are added to kb1 with metadata of the caller's, under *)
(* generated and supplied ids, and a document without a category; the       *)
(* statistics are read, the knowledge base is searched and reset            *)

NextCuration ==
    \/ /\ Len(collections["kb1"]) < MaxStored
       /\ \E category \in Categories, metadata \in MetadataArgs, id \in {Nil, "doc_2"} :
            AddExample("kb1", "a", category, "T", metadata, id)
    \/ /\ Len(collections["kb1"]) < MaxStored
       /\ AddDocument("kb1", Document("c", Single("title", "U"), Nil))
    \/ /\ Len(collections["kb1"]) < MaxStored
       /\ \E metadata \in {<<>>, Single("year", "2025")} :
            AddExamplesBulk("kb1", <<Update(Example("a", "ai", "T"),
                                           Single("metadata", metadata))>>)
    \/ GetStatistics("kb1")
    \/ Search("kb1", "q", 1, 0, Nil)
    \/ Reset("kb1")

SpecCuration == Init /\ [][NextCuration]_vars

(* Gateway: every operation that embeds a text is called while the provider *)
(* may fail, on valid and on blank texts                                    *)

NextGateway ==
    \/ /\ Len(collections["kb1"]) < MaxStored
       /\ \E content \in {"", "a"} : AddExample("kb1", content, "ai", "T", <<>>, Nil)
    \/ /\ Len(collections["kb1"]) < MaxStored
       /\ \E examples \in {list \in BulkLists : Len(list) <= 2} :
            AddExamplesBulk("kb1", examples)
    \/ \E query \in {"", "q"} : Search("kb1", query, 3, 0, Nil)
    \/ \E query \in {"", "q"} : GetContext("kb1", query, 3, 0, Nil)
    \/ ExportToJson("kb1")
    \/ ImportFromJson("kb2")

SpecGateway == Init /\ [][NextGateway]_vars

(* Pipeline: tenders are processed by the orchestrator, and bid documents   *)
(* are generated by generators with and without the knowledge base kb1      *)

NextPipeline ==
    \/ /\ Len(collections["kb1"]) < MaxExamples
       /\ \E example \in {<<"a", "ai">>, <<"b", "cyber">>} :
            AddExample("kb1", example[1], example[2], "T", <<>>, Nil)
    \/ \E kb \in {Nil, "kb1"}, config \in Configs,
          categories \in {<<>>, <<"ai">>, <<"cyber", "ai">>} :
            \E attempts \in BidAttempts(config) :
                Generate(kb, config, Tender("AI", "q", "Uni"), categories, <<"s">>, attempts)
    \/ \E filter_attempts \in AgentAttempts(Config, FilterResults),
          rating_attempts \in AgentAttempts(Config, RatingResults),
          document_attempts \in BidAttempts(Config) :
            ProcessTender(Config, Tender("AI", "q", "Uni"), filter_attempts,
                          rating_attempts, document_attempts)

SpecPipeline == Init /\ [][NextPipeline]_vars

(* Reads: kb1 holds examples and is read by every operation that does not *)
(* insert, with queries that embed and queries that fail                  *)

NextReads ==
    \/ /\ Len(collections["kb1"]) < MaxStored
       /\ \E example \in {<<"a", "ai">>, <<"b", "cyber">>} :
            AddExample("kb1", example[1], example[2], "T", <<>>, Nil)
    \/ \E query \in {"", "q"}, k \in {0, 1} : Search("kb1", query, k, 0, Nil)
    \/ \E query \in {"", "q"}, category \in {Nil, "ai"} :
            GetContext("kb1", query, 1, 0, category)
    \/ KnowledgeBaseCount("kb1")
    \/ GetStatistics("kb1")
    \/ ExportToJson("kb1")

SpecReads == Init /\ [][NextReads]_vars

(* Bulk: examples are added to kb1 in bulk and imported from files written *)
(* by hand, some with empty content, next to documents with caller ids    *)

NextBulk ==
    \/ /\ Len(collections["kb1"]) < MaxStored
       /\ \E id \in {Nil, "doc_2"} \ Ids(collections["kb1"]) :
            AddDocument("kb1", Document("a", Single("title", "T"), id))
    \/ \E examples \in BulkLists : AddExamplesBulk("kb1", examples)
    \/ \E data \in BulkLists : WriteJson(data)
    \/ ImportFromJson("kb1")
    \/ Reset("kb1")

SpecBulk == Init /\ [][NextBulk]_vars

(* Tasks: two tasks add documents to kb1, one at a time and in bulk, and   *)
(* embed lists of texts, their awaits interleaved                         *)

\* the texts passed to create_embeddings, as documents without metadata
TextLists ==
    UNION {[1 .. n -> {Document(text, <<>>, Nil) : text \in {"", "a"}}] : n \in 0 .. 2}

\* the collection holds at most MaxStored documents when the documents of
\* the call and of the suspended tasks are all added
Room(kb, documents) ==
    Len(collections[kb]) + Outstanding(kb, TaskIds) + Len(documents) <= MaxStored

NextTasks ==
    \/ \E t \in TaskIds, content \in {"", "a"} :
            /\ Room("kb1", <<content>>)
            /\ Begin(t, "add_document", "kb1", <<Document(content, Single("title", "T"), Nil)>>)
    \/ \E t \in TaskIds, examples \in {list \in BulkLists : Len(list) <= 2} :
            /\ Room("kb1", examples)
            /\ Begin(t, "add_documents", "kb1", BulkDocuments(examples))
    \/ \E t \in TaskIds, texts \in TextLists :
            Begin(t, "create_embeddings", "kb1", texts)
    \/ \E t \in TaskIds : Resume(t)

SpecTasks == Init /\ [][NextTasks]_vars

(* LLM: generate_structured is called with max_retries None (0), below, at *)
(* and above MAX_RETRIES                                                    *)

NextLLM ==
    \E max_retries \in 0 .. Config["MAX_RETRIES"] + 1 :
        \E attempts \in AttemptLists(IF max_retries = 0 THEN Config["MAX_RETRIES"]
                                      ELSE max_retries) :
            CallGenerateStructured(Config, attempts, max_retries)

SpecLLM == Init /\ [][NextLLM]_vars

-----------------------------------------------------------------------------
(* Properties *)

Count(kb) == Len(collections[kb])

Retrieval == last.op \in {"search", "get_context"}

\* a is b with some elements left out
RECURSIVE IsSubSeq(_, _)
IsSubSeq(a, b) ==
    IF Len(a) = 0 THEN TRUE
    ELSE IF Len(b) = 0 THEN FALSE
    ELSE IF Head(a) = Head(b) THEN IsSubSeq(Tail(a), Tail(b))
    ELSE IsSubSeq(a, Tail(b))

\* the (content, category, title) tuples of a collection
Tuples(coll) ==
    {<<coll[i].content, Get(coll[i].metadata, "category", Nil),
       Get(coll[i].metadata, "title", Nil)>> : i \in DOMAIN coll}

\* add_examples_bulk on a fresh collection with 3 examples of which only the
\* 2nd has empty content, the provider answering
C1_Case ==
    /\ last.op = "add_examples_bulk"
    /\ last.pre = 0
    /\ Len(last.contents) = 3
    /\ last.contents[1] \notin BlankTexts
    /\ last.contents[2] = ""
    /\ last.contents[3] \notin BlankTexts
    /\ last.err # "HTTPError"

\* C1, as claimed: the failure of item 2 is reported and documents 1 and 3 are
\* both stored, so count() == 2
C1_Original ==
    C1_Case => last.err = "ValueError" /\ Count(last.kb) = 2

\* C1, amended: the failure of item 2 is reported as ValueError, no ids are
\* returned, and only document 1 is stored: count() == 1
C1_Amended ==
    C1_Case =>
        /\ last.err = "ValueError"
        /\ last.ids = <<>>
        /\ Count(last.kb) = 1
        /\ collections[last.kb][1].content = last.contents[1]

C1_Witness ==
    C1_Case /\ last.err = "ValueError" /\ Count(last.kb) = 1

\* C2: export_to_json of a collection built with add_example, then
\* import_from_json into a fresh empty collection, gives a collection with the
\* same total_documents and the same (content, category, title) tuples
C2_RoundTrip ==
    (/\ last.op = "import_from_json"
     /\ last.kb = "kb2"
     /\ last.pre = 0
     /\ last.err = "none"
     /\ file = <<ExportData(collections["kb1"])>>)
    => /\ TotalDocuments(collections["kb2"]) = TotalDocuments(collections["kb1"])
       /\ Tuples(collections["kb2"]) = Tuples(collections["kb1"])

\* C3: after N add_document / add_example calls that returned an id, on a
\* fresh collection, count() == N
C3_CountIsInsertions ==
    \A name \in Names : Count(name) = adds[name]

\* C4: every result of retrieve has similarity >= min_similarity
C4_AtLeastThreshold ==
    Retrieval =>
        \A i \in DOMAIN last.results :
            last.results[i].similarity >= last.min_similarity

C4_Witness ==
    /\ last.op = "search"
    /\ last.err = "none"
    /\ last.min_similarity > 0
    /\ Len(last.results) >= 1
    /\ Len(last.results) < Len(last.hits)

\* what retrieve returns for the same index answer under another threshold
ResultsAt(min_similarity) ==
    IF Len(last.hits) = 0 THEN <<>> ELSE Keep(last.hits, min_similarity)

\* C5: for the same collection, query, k and filter, a higher min_similarity
\* gives a sub-list of (so no more results than) a lower one
C5_Antitone ==
    (Retrieval /\ last.err = "none") =>
        \A s \in Thresholds :
            /\ s <= last.min_similarity =>
                /\ IsSubSeq(last.results, ResultsAt(s))
                /\ Len(last.results) <= Len(ResultsAt(s))
            /\ s >= last.min_similarity =>
                /\ IsSubSeq(ResultsAt(s), last.results)
                /\ Len(ResultsAt(s)) <= Len(last.results)

C5_Witness ==
    /\ last.op = "search"
    /\ last.err = "none"
    /\ \E s1, s2 \in Thresholds :
        /\ s1 < last.min_similarity
        /\ last.min_similarity < s2
        /\ Len(ResultsAt(s2)) < Len(last.results)
        /\ Len(last.results) < Len(ResultsAt(s1))

\* C6: every result of retrieve has a similarity in [0, 1], also for a
\* distance whose square exceeds 2
C6_UnitInterval ==
    Retrieval =>
        \A i \in DOMAIN last.results :
            /\ last.results[i].similarity >= 0
            /\ last.results[i].similarity <= SimOne

C6_Witness ==
    /\ last.op = "search"
    /\ Len(last.results) = Len(last.hits)
    /\ \E i \in DOMAIN last.hits :
        /\ last.hits[i].distance * last.hits[i].distance > 2 * Scale * Scale
        /\ last.results[i].similarity = 0

\* C7: of two hits for one query, the one at the smaller distance has the
\* similarity that is at least the other's
C7_OrderReversing ==
    (Retrieval /\ last.err = "none" /\ last.min_similarity <= 0) =>
        /\ Len(last.results) = Len(last.hits)
        /\ \A i, j \in DOMAIN last.hits :
            last.hits[i].distance < last.hits[j].distance =>
                last.results[i].similarity >= last.results[j].similarity

C7_Witness ==
    /\ last.op = "search"
    /\ last.min_similarity <= 0
    /\ Len(last.results) = Len(last.hits)
    /\ \E i, j \in DOMAIN last.hits :
        /\ last.hits[i].distance < last.hits[j].distance
        /\ last.results[i].similarity > last.results[j].similarity

\* C8: on an empty collection get_context(query, k=3, min_similarity=0.5)
\* with a non-empty query completes without error and returns ""
C8_EmptyCollection ==
    (/\ last.op = "get_context"
     /\ last.pre = 0
     /\ last.k = 3
     /\ last.min_similarity = SimOne \div 2
     /\ last.contents[1] \notin BlankTexts
     /\ last.err # "HTTPError")
    => last.err = "none" /\ last.context = ""

\* C9: with a non-empty category, every result of search and every block of
\* get_context comes from a stored document whose category is that category
C9_OnlyCategory ==
    (Retrieval /\ last.category # Nil /\ last.category # "") =>
        /\ \A i \in DOMAIN last.results :
            \E j \in DOMAIN collections[last.kb] :
                LET doc == collections[last.kb][j]
                IN  /\ doc.content = last.results[i].content
                    /\ doc.metadata = last.results[i].metadata
                    /\ "category" \in DOMAIN doc.metadata
                    /\ doc.metadata["category"] = last.category
        /\ last.op = "get_context" /\ last.err = "none"
            => last.context = FormatForPrompt(last.results)

C9_Witness ==
    /\ last.op = "get_context"
    /\ last.category = "ai"
    /\ Len(last.results) >= 1
    /\ last.context # ""
    /\ \E j \in DOMAIN collections[last.kb] :
        Get(collections[last.kb][j].metadata, "category", Nil) # "ai"

\* a call that embeds one text, which is empty or whitespace only
C10_Case ==
    /\ last'.op \in {"create_embedding", "add_document", "add_example"}
    /\ Len(last'.contents) = 1
    /\ last'.contents[1] \in BlankTexts

\* C10: create_embedding of an empty or whitespace-only text raises ValueError
\* and sends no request to the provider; add_document with such content
\* leaves the collection as it was
C10_BlankRejected ==
    [][C10_Case =>
        /\ last'.err = "ValueError"
        /\ last'.requests = 0
        /\ collections' = collections]_vars

C10_Witness ==
    /\ last.op = "add_document"
    /\ last.contents = <<" ">>
    /\ last.err = "ValueError"
    /\ last.requests = 0
    /\ last.pre >= 1
    /\ Count(last.kb) = last.pre

Embedding ==
    last.op \in {"search", "get_context", "add_example", "add_examples_bulk",
                 "import_from_json"}

\* C12: when the EmbeddingService raises during search, get_context,
\* add_example, add_examples_bulk or import_from_json, the caller gets that
\* same error, and no ids, results, context or count in its place
C12_GatewayErrorReachesCaller ==
    (Embedding /\ last.gateway # "none") =>
        /\ last.err = last.gateway
        /\ last.ids = <<>>
        /\ last.results = <<>>
        /\ last.context = ""
        /\ last.returned = 0

C12_Witness ==
    /\ last.op = "get_context"
    /\ last.pre > 0
    /\ last.requests = 1
    /\ last.gateway = "HTTPError"
    /\ last.err = "HTTPError"

\* C13: a create_embedding call with a text that is not blank sends exactly
\* one request to the provider, whether the provider answers or fails; a
\* failed request is not sent again
C13_OneRequest ==
    (last.op = "create_embedding" /\ last.contents[1] \notin BlankTexts) =>
        /\ last.requests = 1
        /\ last.err \in {"none", "HTTPError"}

C13_Witness ==
    /\ last.op = "create_embedding"
    /\ last.contents = <<" a ">>
    /\ last.err = "HTTPError"
    /\ last.requests = 1

StartsWith(s, prefix) ==
    Len(s) >= Len(prefix) /\ SubSeq(s, 1, Len(prefix)) = prefix

EndsWith(s, suffix) ==
    Len(s) >= Len(suffix) /\ SubSeq(s, Len(s) - Len(suffix) + 1, Len(s)) = suffix

\* the pieces of s between the occurrences of sep, as str.split gives them
RECURSIVE Split(_, _)
Split(s, sep) ==
    LET at == {i \in 1 .. Len(s) - Len(sep) + 1 : SubSeq(s, i, i + Len(sep) - 1) = sep}
    IN  IF at = {} THEN <<s>>
        ELSE LET i == CHOOSE j \in at : \A other \in at : j <= other
             IN  <<SubSeq(s, 1, i - 1)>> \o Split(SubSeq(s, i + Len(sep), Len(s)), sep)

\* C14: the context get_context returns is "" when retrieve kept no result
\* (in particular when every hit is below min_similarity); otherwise it is
\* one block per kept result, in the order retrieve returned them, the i-th
\* block headed "### Example i" and ending with the content of the i-th
\* result, the blocks joined by "\n\n---\n\n"
C14_OneBlockPerResult ==
    (last.op = "get_context" /\ last.err = "none") =>
        /\ (\A i \in DOMAIN last.hits :
                Similarity(last.hits[i].distance) < last.min_similarity)
            => last.context = ""
        /\ last.results = <<>> => last.context = ""
        /\ last.results # <<>> =>
            LET blocks == Split(last.context, "\n\n---\n\n")
            IN  /\ Len(blocks) = Len(last.results)
                /\ \A i \in DOMAIN last.results :
                    /\ StartsWith(blocks[i], "### Example " \o ToString(i))
                    /\ EndsWith(blocks[i], "\n\n" \o last.results[i].content)
                    /\ \A key \in {"title", "category"} \cap DOMAIN last.results[i].metadata :
                        Len(Split(blocks[i], last.results[i].metadata[key])) = 2

C14_Witness ==
    /\ last.op = "get_context"
    /\ last.err = "none"
    /\ Len(last.hits) = 2
    /\ Len(last.results) = 2
    /\ last.results[1].content # last.results[2].content
    /\ last.results[1].similarity = last.results[2].similarity
    /\ Len(Split(last.context, "\n\n---\n\n")) = 2

\* the (content, metadata) pairs of hits or results, in their order
Shown(items) == [i \in DOMAIN items |-> <<items[i].content, items[i].metadata>>]

\* C15: a retrieval returns at most min(k, count()) results, in non-increasing
\* order of similarity, and in the order the index ranked them (ascending
\* distance), so that results of equal similarity stay in the index's order
C15_AtMostKRanked ==
    (Retrieval /\ last.err = "none") =>
        /\ Len(last.results) <= last.k
        /\ Len(last.results) <= last.pre
        /\ \A i, j \in DOMAIN last.results :
                i < j => last.results[i].similarity >= last.results[j].similarity
        /\ \A i, j \in DOMAIN last.hits :
                i < j => last.hits[i].distance <= last.hits[j].distance
        /\ IsSubSeq(Shown(last.results), Shown(last.hits))

C15_Witness ==
    /\ last.op = "search"
    /\ last.err = "none"
    /\ last.k = 3
    /\ Len(last.results) = 2
    /\ last.results[1].similarity > last.results[2].similarity
    /\ last.results[1].content = collections[last.kb][2].content
    /\ last.results[2].content = collections[last.kb][1].content
    /\ collections[last.kb][1].content # collections[last.kb][2].content

RECURSIVE SumOver(_, _)
SumOver(counts, keys) ==
    IF keys = {} THEN 0
    ELSE LET key == CHOOSE k \in keys : TRUE
         IN  counts[key] + SumOver(counts, keys \ {key})

\* C16: whatever the collection holds, get_statistics returns total_documents
\* equal to count() and a categories mapping from each category to the number
\* of documents whose metadata has it ("unknown" for a document with no
\* category), the counts summing to total_documents
C16_StatisticsTally ==
    last.op = "get_statistics" =>
        LET coll == collections[last.kb]
            categories == last.stats.categories
        IN  /\ last.stats.total_documents = Count(last.kb)
            /\ categories.type = "dict"
            /\ SumOver(categories.value, DOMAIN categories.value) = last.stats.total_documents
            /\ \A i \in DOMAIN coll :
                LET cat == IF "category" \in DOMAIN coll[i].metadata
                           THEN coll[i].metadata["category"] ELSE "unknown"
                IN  /\ cat \in DOMAIN categories.value
                    /\ categories.value[cat] =
                        Cardinality({j \in DOMAIN coll :
                            IF cat = "unknown"
                            THEN "category" \notin DOMAIN coll[j].metadata
                                 \/ coll[j].metadata["category"] = "unknown"
                            ELSE "category" \in DOMAIN coll[j].metadata
                                 /\ coll[j].metadata["category"] = cat})

\* C17: after a successful import_from_json into any collection, one that
\* already holds documents under the ids of the snapshot included, count()
\* has grown by exactly the number the call returned
C17_ImportGrowsByReturned ==
    (last.op = "import_from_json" /\ last.err = "none") =>
        Count(last.kb) = last.pre + last.returned

\* C18: reset() leaves count() == 0, and the VectorStore that the
\* KnowledgeBase and the DocumentRetriever hold refers to the collection
\* reset created, never to the deleted one: no later add, search or
\* get_statistics fails for a collection that is gone, and what the
\* collection holds after a reset was added after it
C18_UsableAfterReset ==
    /\ last.op = "reset" => Count(last.kb) = 0
    /\ \A name \in Names : handle[name] # "deleted"
    /\ last.err # "NotFoundError"
    /\ \A name \in Names : handle[name] = "recreated" => Count(name) <= adds[name]
    /\ (last.op = "get_statistics" /\ handle[last.kb] = "recreated") =>
            last.stats.total_documents <= adds[last.kb]
    /\ (last.op = "search" /\ handle[last.kb] = "recreated") =>
            Len(last.hits) <= adds[last.kb]

C18_Witness ==
    /\ handle["kb1"] = "recreated"
    /\ last.op = "add_example"
    /\ last.err = "none"
    /\ last.pre = 0
    /\ last.ids = <<"doc_1">>
    /\ Count("kb1") = 1

\* the requested category is held by no document of the knowledge base,
\* which is not empty: get_context can only return ""
NoExampleOfCategory ==
    /\ last.kb # Nil
    /\ collections[last.kb] # <<>>
    /\ last.category # Nil
    /\ \A i \in DOMAIN collections[last.kb] :
            Get(collections[last.kb][i].metadata, "category", Nil) # last.category

\* C19: when a DocumentGenerator has a knowledge base whose get_context
\* returns "" for the tender, and the gateway and the LLM answer, generate
\* completes: it calls generate_structured exactly once, with a prompt that
\* has no examples block, and returns the BidDocument of the LLM
C19_GeneratesWithoutExamples ==
    (/\ last.op = "generate"
     /\ NoExampleOfCategory
     /\ last.gateway = "none"
     /\ last.attempts[1].valid) =>
        /\ last.err = "none"
        /\ last.called = <<"get_context", "generate_structured">>
        /\ last.context = ""
        /\ Len(Split(last.prompt, "HIGH-QUALITY EXAMPLES")) = 1
        /\ last.document = last.attempts[1].model

\* C20: when the filter agent returns a result that is not relevant, or whose
\* confidence is below MIN_CONFIDENCE, process_tender returns with status
\* "filtered_out": only the filter agent was called, and rating_result and
\* bid_document are None
C20_FilteredOut ==
    (/\ last.op = "process_tender"
     /\ last.attempts[1].valid
     /\ \/ ~last.attempts[1].model[1].is_relevant
        \/ last.attempts[1].model[1].confidence < last.config["MIN_CONFIDENCE"]) =>
        /\ last.result[1].status = "filtered_out"
        /\ last.called = <<"filter">>
        /\ last.result[1].filter_result = last.attempts[1].model
        /\ last.result[1].rating_result = <<>>
        /\ last.result[1].bid_document = <<>>

C20_Witness ==
    /\ last.op = "process_tender"
    /\ last.attempts[1].valid
    /\ last.attempts[1].model[1].is_relevant
    /\ last.attempts[1].model[1].confidence = 50
    /\ last.result[1].status = "filtered_out"
    /\ last.called = <<"filter">>

\* the collaborator was called during the last call
Called(agent) == \E i \in DOMAIN last.called : last.called[i] = agent

\* process_tender got a FilterResult that passes the filter
PassedFilter ==
    /\ last.op = "process_tender"
    /\ last.attempts[1].valid
    /\ last.attempts[1].model[1].is_relevant
    /\ last.attempts[1].model[1].confidence >= last.config["MIN_CONFIDENCE"]

\* C21: when the tender passed the filter and the rating agent returns a
\* RatingResult, the document generator is called if and only if
\* overall_score >= MIN_SCORE_FOR_DOCUMENT.  Below the threshold the status is
\* "rated_low", only the filter and the rating agent were called and
\* bid_document is None; at or above it the generator is called once, after
\* the rating agent, and when it returns a BidDocument the status is
\* "complete" and bid_document is that document
C21_GeneratesFromThreshold ==
    (PassedFilter /\ last.rating_attempts[1].valid) =>
        LET rating_result == last.rating_attempts[1].model[1]
            low == rating_result.overall_score < last.config["MIN_SCORE_FOR_DOCUMENT"]
            result == last.result[1]
        IN  /\ Called("generate") <=> ~low
            /\ result.rating_result = <<rating_result>>
            /\ low => /\ result.status = "rated_low"
                      /\ last.called = <<"filter", "rate">>
                      /\ result.bid_document = <<>>
            /\ ~low => last.called = <<"filter", "rate", "generate">>
            /\ (~low /\ \E i \in DOMAIN last.document_attempts :
                            last.document_attempts[i].valid) =>
                    /\ result.status = "complete"
                    /\ Len(result.bid_document) = 1

C21_Witness ==
    /\ PassedFilter
    /\ last.rating_attempts[1].valid
    /\ last.rating_attempts[1].model[1].overall_score = last.config["MIN_SCORE_FOR_DOCUMENT"]
    /\ last.called = <<"filter", "rate", "generate">>
    /\ last.result[1].status = "complete"
    /\ Len(last.result[1].bid_document) = 1

\* every attempt of a generate_structured call fails
NoneValid(attempts) == \A i \in DOMAIN attempts : ~attempts[i].valid

\* the message of the exception generate_structured raises after them
Exhausted(attempts) ==
    "Failed after " \o ToString(Len(attempts)) \o " attempts: "
        \o attempts[Len(attempts)].message

\* C22: process_tender never raises.  When the filter agent, the rating agent
\* or the generator raises, the ProcessedTender returned has the status
\* "error: " followed by the message of the exception; the results of the
\* stages before the failing one are kept, the failing stage and the later
\* ones leave None, and no later stage is called
C22_ErrorsBecomeStatus ==
    last.op = "process_tender" =>
        LET result == last.result[1]
        IN  /\ last.err = "none"
            /\ NoneValid(last.attempts) =>
                    /\ result.status = "error: " \o Exhausted(last.attempts)
                    /\ last.called = <<"filter">>
                    /\ result.filter_result = <<>>
                    /\ result.rating_result = <<>>
                    /\ result.bid_document = <<>>
            /\ (PassedFilter /\ NoneValid(last.rating_attempts)) =>
                    /\ result.status = "error: " \o Exhausted(last.rating_attempts)
                    /\ last.called = <<"filter", "rate">>
                    /\ result.filter_result = last.attempts[1].model
                    /\ result.rating_result = <<>>
                    /\ result.bid_document = <<>>
            /\ (/\ PassedFilter
                /\ last.rating_attempts[1].valid
                /\ last.rating_attempts[1].model[1].overall_score
                        >= last.config["MIN_SCORE_FOR_DOCUMENT"]
                /\ NoneValid(last.document_attempts)) =>
                    /\ result.status = "error: " \o Exhausted(last.document_attempts)
                    /\ last.called = <<"filter", "rate", "generate">>
                    /\ result.filter_result = last.attempts[1].model
                    /\ result.rating_result = last.rating_attempts[1].model
                    /\ result.bid_document = <<>>

C22_Witness ==
    /\ PassedFilter
    /\ NoneValid(last.rating_attempts)
    /\ last.called = <<"filter", "rate">>
    /\ last.result[1].status = "error: Failed after 3 attempts: API error: 503"
    /\ Len(last.result[1].filter_result) = 1

\* C23: generate_structured with max_retries = n >= 1 sends at most n
\* requests.  It returns the model of the first attempt whose response
\* validates, having sent one request per attempt up to that one; when none
\* of the n attempts validates it raises after exactly n requests, with
\* "Failed after n attempts: " followed by the message of the last failure
C23_AtMostNCalls ==
    (last.op = "generate_structured" /\ last.max_retries >= 1) =>
        LET n == last.max_retries
            valid == {i \in 1 .. n : last.attempts[i].valid}
        IN  /\ last.api_calls <= n
            /\ valid # {} =>
                    \E first \in valid :
                        /\ \A i \in valid : first <= i
                        /\ last.err = "none"
                        /\ last.api_calls = first
                        /\ last.document = last.attempts[first].model
            /\ valid = {} =>
                    /\ last.err = "Failed after " \o ToString(n) \o " attempts: "
                                      \o last.attempts[n].message
                    /\ last.api_calls = n
                    /\ last.document = <<>>

C23_Witness ==
    /\ last.op = "generate_structured"
    /\ last.max_retries = 2
    /\ last.attempts[1].message = "API error: 501"
    /\ last.err = "Failed after 2 attempts: Response doesn't look like JSON: Sure!..."
    /\ last.api_calls = 2

\* C24: within one add_examples_bulk (add_documents) or create_embeddings
\* call, at most one embedding request is in flight at any moment; it is the
\* request of the document the loop is at, and it is sent only when every
\* document before it in the list has been embedded and, for add_documents,
\* added to the collection under the id returned for it
C24_OneAtATime ==
    \A t \in TaskIds :
        tasks[t].op \in {"add_documents", "create_embeddings"} =>
            /\ Cardinality(tasks[t].inflight) <= 1
            /\ tasks[t].pc # "awaiting" => tasks[t].inflight = {}
            /\ tasks[t].pc = "awaiting" =>
                    /\ tasks[t].inflight = {tasks[t].next}
                    /\ tasks[t].embedded = tasks[t].next - 1
                    /\ tasks[t].op = "add_documents" =>
                            /\ Len(tasks[t].ids) = tasks[t].next - 1
                            /\ \A i \in DOMAIN tasks[t].ids :
                                    tasks[t].ids[i] \in Ids(collections[tasks[t].kb])

C24_Witness ==
    \E t \in TaskIds :
        /\ tasks[t].op = "add_documents"
        /\ tasks[t].pc = "awaiting"
        /\ tasks[t].next = 2
        /\ tasks[t].inflight = {2}
        /\ Len(tasks[t].ids) = 1

\* a single-document insertion has returned an id
AddedOne ==
    /\ last.op \in {"add_document", "add_example"}
    /\ last.err = "none"

\* C25: add_document returns the id of the document when it has one (an id
\* that is not None and not empty); else it returns "doc_<n+1>", n being
\* count() when the call was made
C25_IdReturned ==
    AddedOne =>
        IF last.supplied[1] # Nil /\ last.supplied[1] # ""
        THEN last.ids = <<last.supplied[1]>>
        ELSE last.ids = <<"doc_" \o ToString(last.pre + 1)>>

C25_Witness ==
    /\ AddedOne
    /\ last.pre = 1
    /\ last.supplied = <<"x">>
    /\ last.ids = <<"x">>

\* C26: an add_document call that generates the id and returns makes exactly
\* one new document visible, under ids that are unique in the collection:
\* the generated id is not the id of a document the collection already held
C26_GeneratedIdIsNew ==
    /\ \A name \in Names : Cardinality(Ids(collections[name])) = Count(name)
    /\ (AddedOne /\ (last.supplied[1] = Nil \/ last.supplied[1] = "")) =>
            /\ Count(last.kb) = last.pre + 1
            /\ collections[last.kb][Count(last.kb)].id = last.ids[1]

\* the index of the first document of the last call whose content is empty
FirstEmpty ==
    CHOOSE i \in DOMAIN last.contents :
        /\ last.contents[i] = ""
        /\ \A j \in 1 .. i - 1 : last.contents[j] # ""

\* C28: when add_examples_bulk or import_from_json raises at item i because
\* its content is empty, the items before i are the documents the call has
\* added to the collection, in order, no item from i on is added, and the
\* caller gets no ids (no count)
C28_PrefixStored ==
    (/\ last.op \in {"add_examples_bulk", "import_from_json"}
     /\ last.err = "ValueError"
     /\ \E i \in DOMAIN last.contents : last.contents[i] = "") =>
        /\ Count(last.kb) = last.pre + FirstEmpty - 1
        /\ \A j \in 1 .. FirstEmpty - 1 :
                collections[last.kb][last.pre + j].content = last.contents[j]
        /\ last.ids = <<>>
        /\ last.returned = 0

\* C29: add_example and add_examples_bulk leave their arguments as they
\* were: the caller's metadata dict, and the metadata dict inside each bulk
\* example, has the same keys and values after the call as before it
C29_ArgumentsUnchanged ==
    /\ last.op = "add_example" => last.metadata_after = last.metadata
    /\ last.op = "add_examples_bulk" => last.examples_after = last.examples

\* the operations that only read the collection
Reads == {"search", "get_context", "count", "get_statistics", "export_to_json"}

\* the (id, content, metadata) triples a collection holds
Triples(coll) == {<<coll[i].id, coll[i].content, coll[i].metadata>> : i \in DOMAIN coll}

\* C30: a call of search, get_context, count, get_statistics or
\* export_to_json leaves every collection with the (id, content, metadata)
\* triples it held before the call, whether the call returns or raises
C30_ReadsKeepCollection ==
    [][last'.op \in Reads =>
            \A name \in Names : Triples(collections'[name]) = Triples(collections[name])]_vars

C30_Witness ==
    /\ last.op = "get_context"
    /\ last.err = "HTTPError"
    /\ Count(last.kb) = 2

\* C27: when an add_document call without an id begins while another one is
\* suspended at its embedding request, both on the same collection, and both
\* return, the two ids returned differ and count() has grown by 2
C27_ConcurrentAddsDistinct ==
    \A t \in TaskIds, u \in TaskIds :
        (/\ u \in tasks[t].during
         /\ tasks[t].op = "add_document" /\ tasks[u].op = "add_document"
         /\ tasks[t].kb = tasks[u].kb
         /\ tasks[t].pre = tasks[u].pre
         /\ tasks[t].pc = "returned" /\ tasks[u].pc = "returned") =>
            /\ tasks[t].ids # tasks[u].ids
            /\ Count(tasks[t].kb) = tasks[t].pre + 2

====
